---- MODULE Spec2Model ----
(***************************************************************************)
(* Model of keithmcnulty/ppt-generation: the driver generate_ppt.py (data  *)
(* loading, output directory, per-group loop) and the template filler      *)
(* edit_pres.py (edit_pres).                                               *)
(*                                                                         *)
(* Texts are TLA+ strings; str.find, str.split, os.path.basename, str()    *)
(* and "{:.1f}".format are computed character by character.  A data frame  *)
(* is a record [columns, dtypes, rows]; an int64 column holds integers, a  *)
(* float64 column holds exact tenths (15 stands for 1.5), an object column *)
(* holds strings.  A presentation is a sequence of slides, a slide a       *)
(* sequence of shapes.                                                     *)
(***************************************************************************)
EXTENDS Integers, Sequences, FiniteSets, TLC

(***************************************************************************)
(* Bounds of the model.                                                    *)
(***************************************************************************)
MaxChartRows == 2      \* rows of the chart dataset: 1..MaxChartRows
MaxExtraRows == 1      \* a detail table has up to DataRows + MaxExtraRows rows

(***************************************************************************)
(* Program constants.                                                      *)
(***************************************************************************)
DataRows  == 8         \* range(1,9): data rows 1..8 of the output table
NumCols   == 5         \* range(0,5): columns 0..4
TotalsRow == 9         \* cell(9, j): the totals row
NumPoints == 4         \* range(1,5): categories / values per series

(***************************************************************************)
(* Strings.                                                                *)
(***************************************************************************)
CharAt(s, i) == SubSeq(s, i, i)

\* str.find(sub) != -1
Contains(s, sub) ==
    \E i \in 1..(Len(s) - Len(sub) + 1) : SubSeq(s, i, i + Len(sub) - 1) = sub

EndsWith(s, suf) ==
    /\ Len(s) >= Len(suf)
    /\ SubSeq(s, Len(s) - Len(suf) + 1, Len(s)) = suf

\* Positions of the character c in s.
Positions(s, c) == {i \in 1..Len(s) : CharAt(s, i) = c}

SetMin(S) == CHOOSE m \in S : \A x \in S : m <= x
SetMax(S) == CHOOSE m \in S : \A x \in S : m >= x

\* s.split('.')[0]: the text before the first dot, all of s without a dot.
SplitFirst(s) ==
    IF Positions(s, ".") = {} THEN s
    ELSE SubSeq(s, 1, SetMin(Positions(s, ".")) - 1)

\* os.path.basename: the text after the last slash.
Basename(p) ==
    IF Positions(p, "/") = {} THEN p
    ELSE SubSeq(p, SetMax(Positions(p, "/")) + 1, Len(p))

Digit(d) == CharAt("0123456789", d + 1)

RECURSIVE NatStr(_)
NatStr(n) == IF n < 10 THEN Digit(n) ELSE NatStr(n \div 10) \o Digit(n % 10)

Abs(n) == IF n < 0 THEN -n ELSE n
Sign(n) == IF n < 0 THEN "-" ELSE ""

\* str() of an int64 value.
IntStr(n) == Sign(n) \o NatStr(Abs(n))

\* str() of a float64 value, the value given in tenths: 15 -> "1.5".
TenthsStr(t) == Sign(t) \o NatStr(Abs(t) \div 10) \o "." \o Digit(Abs(t) % 10)

\* str(value) for a value of a column of the given dtype.
Str(v, dtype) ==
    CASE dtype = "int64"   -> IntStr(v)
      [] dtype = "float64" -> TenthsStr(v)
      [] OTHER             -> v

\* "{:.1f}".format(x) for a numeric x of the given dtype.
FormatF1(x, dtype) ==
    IF dtype = "int64" THEN IntStr(x) \o ".0" ELSE TenthsStr(x)

RECURSIVE SumSeq(_)
SumSeq(s) == IF s = <<>> THEN 0 ELSE Head(s) + SumSeq(Tail(s))

(***************************************************************************)
(* Data frames (pandas.DataFrame).                                         *)
(***************************************************************************)
Range(f) == {f[x] : x \in DOMAIN f}

ColIndex(df, name) == CHOOSE j \in 1..Len(df.columns) : df.columns[j] = name

\* df.iloc[i, j] with 0-based i and j.
HasCell(df, i, j) == i + 1 \in 1..Len(df.rows) /\ j + 1 \in 1..Len(df.columns)
Iloc(df, i, j) == df.rows[i + 1][j + 1]

\* df.iloc[:, j]: the whole column j (0-based), every row of the frame.
IlocColumn(df, j) == [i \in 1..Len(df.rows) |-> df.rows[i][j + 1]]

\* df[df["group"] == group]: the rows of the frame whose group equals group.
RECURSIVE SelectRows(_, _)
SelectRows(rows, keep) ==
    IF rows = <<>> THEN <<>>
    ELSE (IF keep[1] THEN <<Head(rows)>> ELSE <<>>)
         \o SelectRows(Tail(rows), Tail(keep))

FilterGroup(df, g) ==
    [df EXCEPT !.rows =
        SelectRows(df.rows,
                   [i \in 1..Len(df.rows) |-> df.rows[i][ColIndex(df, "group")] = g])]

\* .squeeze(): a frame of exactly one row becomes that row (a Series); a
\* frame of 0 or of 2 and more rows and several columns stays a frame.
IsSeries(sel) == Len(sel.rows) = 1

\* series[[c1, c2, c3, c4]].values: for a Series the 4 values; for a frame
\* a 2-dimensional array, one row of 4 values per selected row.
SeriesValues(sel, cols) ==
    IF IsSeries(sel)
    THEN [k \in 1..Len(cols) |-> sel.rows[1][ColIndex(sel, cols[k])]]
    ELSE [r \in 1..Len(sel.rows) |->
             [k \in 1..Len(cols) |-> sel.rows[r][ColIndex(sel, cols[k])]]]

(***************************************************************************)
(* Input data: the files of the data directory.                            *)
(***************************************************************************)
Groups == {"A", "Subtitle"}

ChartColumns ==
    <<"group", "cat1_1", "cat1_2", "cat1_3", "cat2_1", "cat2_2", "cat2_3",
      "cat3_1", "cat3_2", "cat3_3", "cat4_1", "cat4_2", "cat4_3",
      "pie1", "pie2", "pie3", "pie4">>

\* The chart dataset whose i-th row is for group gs[i]; the numeric fields
\* of row i are 20*i + 1 .. 20*i + 16, so that no two fields are equal.
ChartFrame(gs) ==
    [columns |-> ChartColumns,
     dtypes  |-> [j \in 1..Len(ChartColumns) |-> IF j = 1 THEN "object" ELSE "int64"],
     rows    |-> [i \in 1..Len(gs) |->
                    [j \in 1..Len(ChartColumns) |->
                        IF j = 1 THEN gs[i] ELSE 20 * i + j - 1]]]

ChartGroupSeqs == UNION {[1..n -> Groups] : n \in 1..MaxChartRows}

Seed(g) == IF g = "A" THEN 0 ELSE 3

\* Detail tables.  kind "int": 5 int64 columns; "float": 5 float64 columns
\* (tenths, some negative); "object0": a product-name column followed by 4
\* int64 columns; "cols4": only 4 int64 columns.
TableFrame(kind, n, g) ==
    LET nc == IF kind = "cols4" THEN NumCols - 1 ELSE NumCols
        dt(j) == CASE kind = "float" -> "float64"
                   [] kind = "object0" /\ j = 1 -> "object"
                   [] OTHER -> "int64"
        val(i, j) == CASE kind = "float" -> 10 * i + j + Seed(g) - 35
                       [] kind = "object0" /\ j = 1 -> "item" \o IntStr(i)
                       [] OTHER -> i * j + Seed(g) - 2
    IN [columns |-> SubSeq(<<"P", "X", "Y", "Z", "W">>, 1, nc),
        dtypes  |-> [j \in 1..nc |-> dt(j)],
        rows    |-> [i \in 1..n |-> [j \in 1..nc |-> val(i, j)]]]

NoFrame == [columns |-> <<>>, dtypes |-> <<>>, rows |-> <<>>]

\* What the data directory holds for a group: no file, or one of the tables.
TableChoices ==
    {[kind |-> "absent", n |-> 0],
     [kind |-> "int", n |-> DataRows - 1],
     [kind |-> "object0", n |-> DataRows],
     [kind |-> "cols4", n |-> DataRows]}
    \cup {[kind |-> "int", n |-> DataRows]}
    \cup {[kind |-> "float", n |-> n] : n \in DataRows..(DataRows + MaxExtraRows)}

TableFile(g) == "table_" \o g \o ".csv"

\* Layouts of the data directory: "plain" is chart_df.csv and the tables;
\* "extra" adds a file with two dots, a hidden .csv file and a file that is
\* no .csv; "dangling" adds a file with two dots whose first part names no
\* file; "nochart" is the tables without chart_df.csv.
DirLayouts == {"plain", "extra", "dangling", "nochart"}

ExtraFiles == {"table_A.old.csv", ".hidden.csv", "notes.txt"}
DanglingFiles == {"table_B.v2.csv"}

DataDir(gs, tc, layout) ==
    LET names == (IF layout = "nochart" THEN {} ELSE {"chart_df.csv"})
                 \cup {TableFile(g) : g \in {h \in Groups : tc[h].kind # "absent"}}
                 \cup (IF layout = "extra" THEN ExtraFiles ELSE {})
                 \cup (IF layout = "dangling" THEN DanglingFiles ELSE {})
        content(f) ==
            CASE f = "chart_df.csv" -> ChartFrame(gs)
              [] f \in ExtraFiles \cup DanglingFiles -> TableFrame("int", DataRows, f)
              [] OTHER -> LET g == CHOOSE h \in Groups : TableFile(h) = f
                          IN TableFrame(tc[g].kind, tc[g].n, g)
    IN [f \in names |-> content(f)]

(***************************************************************************)
(* Presentations (pptx.Presentation): slides of shapes.                    *)
(***************************************************************************)
NoChart == [categories |-> <<>>, series |-> <<>>, title |-> ""]
NoTable == <<>>

TextShape(t) ==
    [has_text_frame |-> TRUE, text |-> t,
     has_chart |-> FALSE, chart |-> NoChart, has_table |-> FALSE, table |-> NoTable]

PictureShape ==
    [has_text_frame |-> FALSE, text |-> "",
     has_chart |-> FALSE, chart |-> NoChart, has_table |-> FALSE, table |-> NoTable]

ChartShape(c) ==
    [has_text_frame |-> FALSE, text |-> "",
     has_chart |-> TRUE, chart |-> c, has_table |-> FALSE, table |-> NoTable]

TableShape(t) ==
    [has_text_frame |-> FALSE, text |-> "",
     has_chart |-> FALSE, chart |-> NoChart, has_table |-> TRUE, table |-> t]

\* The placeholder data of the template's charts and table.
TemplateBar ==
    [categories |-> <<"Category 1", "Category 2", "Category 3", "Category 4">>,
     series |-> <<[name |-> "Series 1", values |-> <<4, 2, 3, 4>>],
                  [name |-> "Series 2", values |-> <<2, 4, 1, 2>>],
                  [name |-> "Series 3", values |-> <<2, 2, 3, 5>>]>>,
     title |-> "Chart Title"]

TemplatePie ==
    [categories |-> <<"1st Qtr", "2nd Qtr", "3rd Qtr", "4th Qtr">>,
     series |-> <<[name |-> "Sales", values |-> <<8, 3, 1, 1>>]>>,
     title |-> "Sales"]

TemplateTable(nrows) == [i \in 1..nrows |-> [j \in 1..NumCols |-> ""]]

\* The template variants.  "ok" and "subtitle_first" have the layout the
\* filler expects; each of the others lacks one thing.
TemplateVariants ==
    {"ok", "subtitle_first", "no_title", "no_subtitle", "no_chart_title",
     "one_chart", "no_table_title", "no_table", "short_table", "two_slides"}

ExpectedLayouts == {"ok", "subtitle_first"}

Template(v) ==
    LET title  == TextShape("Presentation title")
        sub    == TextShape("Subtitle")
        slide0 == CASE v = "subtitle_first" -> <<PictureShape, sub, title>>
                    [] v = "no_title"       -> <<PictureShape, sub>>
                    [] v = "no_subtitle"    -> <<PictureShape, title>>
                    [] OTHER                -> <<PictureShape, title, sub>>
        slide1 == CASE v = "no_chart_title" ->
                         <<ChartShape(TemplateBar), ChartShape(TemplatePie)>>
                    [] v = "one_chart" ->
                         <<TextShape("Chart title"), ChartShape(TemplateBar)>>
                    [] OTHER ->
                         <<TextShape("Chart title"), ChartShape(TemplateBar),
                           ChartShape(TemplatePie)>>
        slide2 == CASE v = "no_table_title" ->
                         <<TableShape(TemplateTable(TotalsRow + 1))>>
                    [] v = "no_table" -> <<TextShape("Table title")>>
                    [] v = "short_table" ->
                         <<TextShape("Table title"), TableShape(TemplateTable(TotalsRow))>>
                    [] OTHER ->
                         <<TextShape("Table title"),
                           TableShape(TemplateTable(TotalsRow + 1))>>
    IN IF v = "two_slides" THEN <<slide0, slide1>> ELSE <<slide0, slide1, slide2>>

NoPres == <<>>

\* The inputs of a run: the groups of the chart dataset in row order, the
\* detail table of each group, the layout of data/, the template variant.
\* Every template variant is run on well-formed tables, every combination of
\* tables on the template "ok", every layout of data/ with a group's table
\* present and absent.
StandardTables ==
    [g \in Groups |-> IF g = "A" THEN [kind |-> "int", n |-> DataRows]
                      ELSE [kind |-> "float", n |-> DataRows]]

Scenarios ==
    {[gs |-> gs, tc |-> StandardTables, layout |-> "plain", v |-> v] :
        gs \in ChartGroupSeqs, v \in TemplateVariants}
    \cup {[gs |-> gs, tc |-> tc, layout |-> "plain", v |-> "ok"] :
        gs \in ChartGroupSeqs, tc \in [Groups -> TableChoices]}
    \cup {[gs |-> gs, tc |-> tc, layout |-> layout, v |-> "ok"] :
        gs \in ChartGroupSeqs, layout \in DirLayouts,
        tc \in {StandardTables,
                [StandardTables EXCEPT !["A"] = [kind |-> "absent", n |-> 0]]}}

\* [s for s in slide.shapes if P(s)]: the positions of the shapes that
\* satisfy P, in shape order; keep[k] tells whether shape k satisfies P.
RECURSIVE FilterIdx(_, _)
FilterIdx(keep, i) ==
    IF i > Len(keep) THEN <<>>
    ELSE (IF keep[i] THEN <<i>> ELSE <<>>) \o FilterIdx(keep, i + 1)

\* A lookup that ignores the marker text.
FindTextLoose(slide, marker) ==
    FilterIdx([k \in 1..Len(slide) |-> slide[k].has_text_frame], 1)

\* [s for s in slide.shapes if s.has_text_frame and s.text.find(marker) != -1]
FindText(slide, marker) ==
    FilterIdx([k \in 1..Len(slide) |->
                  slide[k].has_text_frame /\ Contains(slide[k].text, marker)], 1)

\* [s for s in slide.shapes if s.has_chart]
FindCharts(slide) == FilterIdx([k \in 1..Len(slide) |-> slide[k].has_chart], 1)

\* [s for s in slide.shapes if s.has_table]
FindTables(slide) == FilterIdx([k \in 1..Len(slide) |-> slide[k].has_table], 1)

\* table.cell(i, j) exists (0-based i and j).
HasTableCell(t, i, j) == i + 1 \in 1..Len(t) /\ j + 1 \in 1..Len(t[i + 1])

(***************************************************************************)
(* The steps of edit_pres as functions of the presentation in memory.      *)
(***************************************************************************)
SetText(p, sl, sh, t) == [p EXCEPT ![sl][sh].text = t]

\* Lines 15-19: the first shape of slide 0 containing "Presentation title".
CanTitle(p) == Len(p) >= 1 /\ FindText(p[1], "Presentation title") # <<>>
DoTitle(p, g) ==
    SetText(p, 1, FindText(p[1], "Presentation title")[1],
            "Presentation for Group " \o g)

\* Lines 22-23: the first shape of slide 0 containing "Subtitle".
CanSubtitle(p) == Len(p) >= 1 /\ FindText(p[1], "Subtitle") # <<>>
DoSubtitle(p, g) ==
    SetText(p, 1, FindText(p[1], "Subtitle")[1],
            "Financial Information for Group " \o g)

\* Lines 26-30: the first shape of slide 1 containing "Chart".
CanChartTitle(p) == Len(p) >= 2 /\ FindText(p[2], "Chart") # <<>>
DoChartTitle(p, g) ==
    SetText(p, 2, FindText(p[2], "Chart")[1],
            "Financial Results Summary for Group " \o g)

\* CategoryChartData(): no categories, no series.
NewChartData == [categories |-> <<>>, series |-> <<>>]

\* chart_data.add_series(name, values): appends to the series it holds.
AddSeries(cd, name, values) ==
    [cd EXCEPT !.series = Append(@, [name |-> name, values |-> values])]

\* Lines 37-41: the chart data built for the bar chart.
BarChartData(sel) ==
    LET c0 == [NewChartData EXCEPT !.categories =
                   [i \in 1..NumPoints |-> "Category " \o IntStr(i)]]
        c1 == AddSeries(c0, "Series 1",
                  SeriesValues(sel, <<"cat1_1", "cat2_1", "cat3_1", "cat4_1">>))
        c2 == AddSeries(c1, "Series 2",
                  SeriesValues(sel, <<"cat1_2", "cat2_2", "cat3_2", "cat4_2">>))
    IN AddSeries(c2, "Series 3",
                  SeriesValues(sel, <<"cat1_3", "cat2_3", "cat3_3", "cat4_3">>))

\* Lines 47-48: the same chart_data object, its categories reassigned and
\* one more series added.
PieChartData(cd, sel) ==
    AddSeries([cd EXCEPT !.categories = <<"1st Qtr", "2nd Qtr", "3rd Qtr", "4th Qtr">>],
              "Series 1", SeriesValues(sel, <<"pie1", "pie2", "pie3", "pie4">>))

\* chart.replace_data(chart_data) writes every value of every series as one
\* worksheet cell and fails (TypeError) on a value that is itself an array,
\* which is what a selection of 2 or more rows yields.
Writable(sel) == Len(sel.rows) <= 1

\* chart.replace_data(chart_data): the chart's categories and series become
\* those of chart_data; the chart title is kept.
ReplaceData(c, cd) == [c EXCEPT !.categories = cd.categories, !.series = cd.series]

\* Lines 33-43.
CanBar(p, sel) == FindCharts(p[2]) # <<>> /\ Writable(sel)
DoBar(p, cd, g) ==
    LET k == FindCharts(p[2])[1]
    IN [p EXCEPT ![2][k].chart =
           [ReplaceData(@, cd) EXCEPT !.title = "Sales by Category: Group " \o g]]

\* Lines 46-50.
CanPie(p, sel) == Len(FindCharts(p[2])) >= 2 /\ Writable(sel)
DoPie(p, cd, g) ==
    LET k == FindCharts(p[2])[2]
    IN [p EXCEPT ![2][k].chart =
           [ReplaceData(@, cd) EXCEPT !.title = "Sales by Quarter: Group " \o g]]

\* Lines 53-57: the first shape of slide 2 containing "Table".
CanTableTitle(p) == Len(p) >= 3 /\ FindText(p[3], "Table") # <<>>
DoTableTitle(p, g) ==
    SetText(p, 3, FindText(p[3], "Table")[1], "Results Table for Group " \o g)

\* The table of the first table shape of slide 2.
TheTable(p) == p[3][FindTables(p[3])[1]].table

SetCells(p, t) == [p EXCEPT ![3][FindTables(p[3])[1]].table = t]

\* Lines 60-64: row 0 holds "Product " + column name.
CanHeadings(p, df) ==
    /\ FindTables(p[3]) # <<>>
    /\ \A j \in 0..(NumCols - 1) :
          HasTableCell(TheTable(p), 0, j) /\ j + 1 \in 1..Len(df.columns)
DoHeadings(p, df) ==
    SetCells(p, [TheTable(p) EXCEPT ![1] =
        [j \in 1..Len(@) |->
            IF j <= NumCols THEN "Product " \o df.columns[j] ELSE @[j]]])

\* Lines 67-69: rows 1..8 hold str() of rows 0..7 of the detail table.
CanData(p, df) ==
    \A i \in 1..DataRows : \A j \in 0..(NumCols - 1) :
        HasTableCell(TheTable(p), i, j) /\ HasCell(df, i - 1, j)
\* The data rows written with the columns in reverse order.
DoDataReversed(p, df) ==
    SetCells(p, [i \in 1..Len(TheTable(p)) |->
        [j \in 1..Len(TheTable(p)[i]) |->
            IF i - 1 \in 1..DataRows /\ j <= NumCols
            THEN Str(Iloc(df, i - 2, NumCols - j), df.dtypes[NumCols - j + 1])
            ELSE TheTable(p)[i][j]]])

DoData(p, df) ==
    SetCells(p, [i \in 1..Len(TheTable(p)) |->
        [j \in 1..Len(TheTable(p)[i]) |->
            IF i - 1 \in 1..DataRows /\ j <= NumCols
            THEN Str(Iloc(df, i - 2, j - 1), df.dtypes[j])
            ELSE TheTable(p)[i][j]]])

\* Lines 72-73: row 9 holds the sum of the whole column, one decimal.
ColumnTotal(df, j) == SumSeq(IlocColumn(df, j))
CanTotals(p, df) ==
    \A j \in 0..(NumCols - 1) :
        HasTableCell(TheTable(p), TotalsRow, j) /\ df.dtypes[j + 1] # "object"
DoTotals(p, df) ==
    SetCells(p, [TheTable(p) EXCEPT ![TotalsRow + 1] =
        [j \in 1..Len(@) |->
            IF j <= NumCols
            THEN FormatF1(ColumnTotal(df, j - 1), df.dtypes[j])
            ELSE @[j]]])

\* An output path without the file extension.
OutPathNoSuffix(g) == "outputs/results_group_" \o g

OutPath(g) == "outputs/results_group_" \o g \o ".pptx"
SuccessMessage(g) == "Successfully saved version " \o g \o "!"

(***************************************************************************)
(* State.                                                                  *)
(***************************************************************************)
VARIABLES
    dataDir,       \* the files of data/: file name -> content
    templateFile,  \* the content of templates/ppt-template.pptx
    outputsDir,    \* whether the directory outputs/ exists
    outputs,       \* the files of outputs/: path -> [exists, slides]
    data_files,    \* the paths of glob's result not yet iterated over
    dataframes,    \* the dict dataframes: name -> frame
    pc,            \* the statement the script is at
    groups,        \* dataframes['chart_df'].group.values
    idx,           \* the position of the driver loop in groups (1-based)
    group,         \* edit_pres: the parameter group
    sales_data,    \* edit_pres: the parameter data_table
    series,        \* edit_pres: the selection of the group's chart rows
    pres,          \* edit_pres: the presentation in memory
    chart_data,    \* edit_pres: the CategoryChartData object
    error,         \* the unhandled exception, if any: [kind, at, index]
    returns        \* the values returned by the edit_pres calls, in order

env    == <<dataDir, templateFile>>
fs     == <<outputsDir, outputs>>
loader == <<data_files, dataframes>>
locals == <<group, sales_data, series, pres, chart_data>>
vars   == <<dataDir, templateFile, outputsDir, outputs, data_files, dataframes,
            pc, groups, idx, group, sales_data, series, pres, chart_data,
            error, returns>>

NoError == [kind |-> "none", at |-> "", index |-> 0]

AbsentFile == [exists |-> FALSE, slides |-> NoPres]
\* A file left in outputs/ by an earlier run.
StaleFile == [exists |-> TRUE, slides |-> <<<<TextShape("earlier run")>>>>]

OutPaths == {OutPath(g) : g \in Groups}

\* glob.glob(os.path.join("data/", "*.csv")): the files of data/ whose name
\* ends in .csv and does not start with a dot.
Glob(dir) ==
    {"data/" \o f : f \in {h \in DOMAIN dir : EndsWith(h, ".csv") /\ CharAt(h, 1) # "."}}

\* Line 14: name = path.split('.')[0] of the basename.
DatasetName(path) == SplitFirst(Basename(path))

\* Line 15: the file pd.read_csv is given.
ReadName(path) == DatasetName(path) \o ".csv"

\* dict lookup d[key]: a KeyError when the key is absent.
\* A lookup that yields an empty frame for an absent key (dict.get).
LookupDefault(d, key) ==
    [found |-> TRUE,
     value |-> IF key \in DOMAIN d THEN d[key] ELSE NoFrame]

Lookup(d, key) ==
    [found |-> key \in DOMAIN d,
     value |-> IF key \in DOMAIN d THEN d[key] ELSE NoFrame]

\* Presentation(input_file): a fresh object read from the file.
\* One template object shared by the calls: what the call before left.
PresentationCached(file) ==
    IF idx > 1 THEN outputs[OutPath(groups[idx - 1])].slides ELSE file

Presentation(file) == file

Init ==
    /\ \E sc \in Scenarios :
          /\ dataDir = DataDir(sc.gs, sc.tc, sc.layout)
          /\ templateFile = Template(sc.v)
    /\ outputsDir \in BOOLEAN
    /\ outputs \in {[p \in OutPaths |-> AbsentFile]}
                   \cup (IF outputsDir THEN {[p \in OutPaths |-> StaleFile]} ELSE {})
    /\ data_files = {}
    /\ dataframes = <<>>
    /\ pc = "glob"
    /\ groups = <<>>
    /\ idx = 0
    /\ group = ""
    /\ sales_data = NoFrame
    /\ series = NoFrame
    /\ pres = NoPres
    /\ chart_data = NewChartData
    /\ error = NoError
    /\ returns = <<>>

\* An exception caught per group: the loop goes on with the next group.
FailSkip(kind, at) ==
    /\ pc' = "lookup"
    /\ error' = [kind |-> kind, at |-> at, index |-> idx]
    /\ idx' = idx + 1
    /\ group' = group
    /\ sales_data' = NoFrame
    /\ series' = NoFrame
    /\ pres' = NoPres
    /\ chart_data' = NewChartData

\* An exception nobody catches: the script ends there.
Fail(kind, at) ==
    /\ pc' = "aborted"
    /\ error' = [kind |-> kind, at |-> at, index |-> idx]
    /\ idx' = idx
    /\ group' = group
    /\ sales_data' = NoFrame
    /\ series' = NoFrame
    /\ pres' = NoPres
    /\ chart_data' = NewChartData

(***************************************************************************)
(* generate_ppt.py                                                         *)
(***************************************************************************)
\* Line 10.
ListFiles ==
    /\ pc = "glob"
    /\ data_files' = Glob(dataDir)
    /\ pc' = "load"
    /\ UNCHANGED <<env, fs, dataframes, groups, idx, locals, error, returns>>

\* Lines 12-15, one iteration; glob's order is arbitrary.
LoadFile ==
    /\ pc = "load"
    /\ \E i \in data_files :
          /\ data_files' = data_files \ {i}
          /\ IF ReadName(i) \in DOMAIN dataDir
             THEN /\ dataframes' =
                        [n \in DOMAIN dataframes \cup {DatasetName(i)} |->
                            IF n = DatasetName(i) THEN dataDir[ReadName(i)]
                            ELSE dataframes[n]]
                  /\ UNCHANGED <<pc, idx, locals, error>>
             ELSE /\ Fail("FileNotFoundError", "load")
                  /\ UNCHANGED dataframes
    /\ UNCHANGED <<env, fs, groups, returns>>

\* Lines 18-19.
MakeOutputsDir ==
    /\ pc = "load"
    /\ data_files = {}
    /\ outputsDir' = TRUE
    /\ pc' = "groups"
    /\ UNCHANGED <<env, outputs, loader, groups, idx, locals, error, returns>>

\* Line 22: the iterable of the loop.
ReadGroups ==
    /\ pc = "groups"
    /\ LET r == Lookup(dataframes, "chart_df")
       IN IF r.found
          THEN /\ groups' = [i \in 1..Len(r.value.rows) |->
                                r.value.rows[i][ColIndex(r.value, "group")]]
               /\ idx' = 1
               /\ pc' = "lookup"
               /\ UNCHANGED <<locals, error>>
          ELSE /\ Fail("KeyError", "groups")
               /\ UNCHANGED groups
    /\ UNCHANGED <<env, fs, loader, returns>>

\* Line 22, the loop is exhausted.
Finish ==
    /\ pc = "lookup"
    /\ idx > Len(groups)
    /\ pc' = "done"
    /\ UNCHANGED <<env, fs, loader, groups, idx, locals, error, returns>>

\* Line 23.
LookupTable ==
    /\ pc = "lookup"
    /\ idx <= Len(groups)
    /\ LET r == Lookup(dataframes, "table_" \o groups[idx])
       IN IF r.found
          THEN /\ group' = groups[idx]
               /\ sales_data' = r.value
               /\ pc' = "call"
               /\ UNCHANGED <<idx, series, pres, chart_data, error>>
          ELSE /\ Fail("KeyError", "lookup")
    /\ UNCHANGED <<env, fs, loader, groups, returns>>

(***************************************************************************)
(* edit_pres.py                                                            *)
(***************************************************************************)
\* A step of edit_pres that changes the presentation in memory or raises.
EditStep(stage, ok, newPres, next, kind) ==
    /\ pc = stage
    /\ IF ok
       THEN /\ pres' = newPres
            /\ pc' = next
            /\ UNCHANGED <<idx, group, sales_data, series, chart_data, error>>
       ELSE Fail(kind, stage)
    /\ UNCHANGED <<env, fs, loader, groups, returns>>

\* Lines 8-12: the call; the chart rows of the group; the template is read.
EnterEditPres ==
    /\ pc = "call"
    /\ series' = FilterGroup(dataframes["chart_df"], group)
    /\ pres' = Presentation(templateFile)
    /\ pc' = "title"
    /\ UNCHANGED <<env, fs, loader, groups, idx, group, sales_data, chart_data,
                   error, returns>>

\* Lines 15-19.
ChangeTitle ==
    EditStep("title", CanTitle(pres), DoTitle(pres, group), "subtitle", "IndexError")

\* Lines 22-23.
ChangeSubtitle ==
    EditStep("subtitle", CanSubtitle(pres), DoSubtitle(pres, group),
             "chart_title", "IndexError")

\* Lines 26-30.
ChangeChartTitle ==
    EditStep("chart_title", CanChartTitle(pres), DoChartTitle(pres, group),
             "bar", "IndexError")

\* Lines 33-43.
ChangeBarChart ==
    /\ pc = "bar"
    /\ IF CanBar(pres, series)
       THEN /\ chart_data' = BarChartData(series)
            /\ pres' = DoBar(pres, BarChartData(series), group)
            /\ pc' = "pie"
            /\ UNCHANGED <<idx, group, sales_data, series, error>>
       ELSE Fail(IF FindCharts(pres[2]) = <<>> THEN "IndexError" ELSE "TypeError", "bar")
    /\ UNCHANGED <<env, fs, loader, groups, returns>>

\* Lines 46-50.
ChangePieChart ==
    /\ pc = "pie"
    /\ IF CanPie(pres, series)
       THEN /\ chart_data' = PieChartData(chart_data, series)
            /\ pres' = DoPie(pres, PieChartData(chart_data, series), group)
            /\ pc' = "table_title"
            /\ UNCHANGED <<idx, group, sales_data, series, error>>
       ELSE Fail(IF Len(FindCharts(pres[2])) < 2 THEN "IndexError" ELSE "TypeError", "pie")
    /\ UNCHANGED <<env, fs, loader, groups, returns>>

\* Lines 53-57.
ChangeTableTitle ==
    EditStep("table_title", CanTableTitle(pres), DoTableTitle(pres, group),
             "headings", "IndexError")

\* Lines 60-64.
WriteHeadings ==
    EditStep("headings", CanHeadings(pres, sales_data), DoHeadings(pres, sales_data),
             "data", "IndexError")

\* Lines 67-69.
WriteData ==
    EditStep("data", CanData(pres, sales_data), DoData(pres, sales_data),
             "totals", "IndexError")

\* Lines 72-73: for each column the sum (a TypeError on strings) is computed
\* before the cell is looked up (an IndexError).
TotalsError(p, df) ==
    LET bad == {j \in 0..(NumCols - 1) :
                   df.dtypes[j + 1] = "object" \/ ~HasTableCell(TheTable(p), TotalsRow, j)}
    IN IF bad # {} /\ df.dtypes[SetMin(bad) + 1] = "object"
       THEN "TypeError" ELSE "IndexError"

WriteTotals ==
    EditStep("totals", CanTotals(pres, sales_data), DoTotals(pres, sales_data),
             "save", TotalsError(pres, sales_data))

\* Lines 76-77, and the driver's loop moves on.
Save ==
    /\ pc = "save"
    /\ outputs' = [outputs EXCEPT ![OutPath(group)] = [exists |-> TRUE, slides |-> pres]]
    /\ returns' = Append(returns, SuccessMessage(group))
    /\ idx' = idx + 1
    /\ pc' = "lookup"
    /\ sales_data' = NoFrame
    /\ series' = NoFrame
    /\ pres' = NoPres
    /\ chart_data' = NewChartData
    /\ UNCHANGED <<env, outputsDir, loader, groups, group, error>>

Next ==
    \/ ListFiles
    \/ LoadFile
    \/ MakeOutputsDir
    \/ ReadGroups
    \/ Finish
    \/ LookupTable
    \/ EnterEditPres
    \/ ChangeTitle
    \/ ChangeSubtitle
    \/ ChangeChartTitle
    \/ ChangeBarChart
    \/ ChangePieChart
    \/ ChangeTableTitle
    \/ WriteHeadings
    \/ WriteData
    \/ WriteTotals
    \/ Save

Spec == Init /\ [][Next]_vars

(***************************************************************************)
(* Observations used by the properties.                                    *)
(***************************************************************************)
\* The output file of group g was written by this run.
Written(g) ==
    /\ OutPath(g) \in DOMAIN outputs
    /\ outputs[OutPath(g)].exists
    /\ outputs[OutPath(g)].slides # StaleFile.slides

OutSlides(g) == outputs[OutPath(g)].slides

\* The k-th chart of slide 1 of the output file of group g.
OutChart(g, k) ==
    LET sl == OutSlides(g)[2] IN sl[FindCharts(sl)[k]].chart

OutTable(g) == TheTable(OutSlides(g))

\* The chart rows and the detail table that were loaded for group g.
ChartRowsOf(g) == FilterGroup(dataframes["chart_df"], g)
TableOf(g) == dataframes["table_" \o g]

LookupStages == {"title", "subtitle", "chart_title", "table_title"}
EditStages ==
    {"title", "subtitle", "chart_title", "bar", "pie", "table_title",
     "headings", "data", "totals", "save"}

(***************************************************************************)
(* C1: after a successful edit_pres call the pie chart (the second chart   *)
(* of slide 1) holds the 4 quarter categories and exactly 1 series, whose  *)
(* 4 values are pie1..pie4 of the group's row; nothing written for the bar *)
(* chart remains in the data given to the pie chart.                       *)
(***************************************************************************)
C1_PieHasOnlyThePieSeries ==
    \A g \in Groups :
        Written(g) =>
            /\ OutChart(g, 2).categories = <<"1st Qtr", "2nd Qtr", "3rd Qtr", "4th Qtr">>
            /\ Len(OutChart(g, 2).series) = 1
            /\ OutChart(g, 2).series[1].values =
                   SeriesValues(ChartRowsOf(g), <<"pie1", "pie2", "pie3", "pie4">>)

(***************************************************************************)
(* C2: after a successful edit_pres call, for every column j in 0..4 the   *)
(* totals cell (9, j) equals the sum of the 8 values written into rows     *)
(* 1..8 of that column, with exactly one fractional digit; also for a      *)
(* detail table of more than 8 rows.                                       *)
(***************************************************************************)
SumOfDataRows(df, j) == SumSeq([i \in 1..DataRows |-> Iloc(df, i - 1, j)])

C2_TotalsAreSumOfEightRows ==
    \A g \in Groups :
        Written(g) =>
            \A j \in 0..(NumCols - 1) :
                OutTable(g)[TotalsRow + 1][j + 1] =
                    FormatF1(SumOfDataRows(TableOf(g), j), TableOf(g).dtypes[j + 1])

(***************************************************************************)
(* C8: after a successful edit_pres call, for every data row i in 1..8 and *)
(* every column j in 0..4 the output cell (i, j) holds str() of the detail *)
(* table's cell (i-1, j).                                                  *)
(***************************************************************************)
C8_DataCellsRoundTrip ==
    \A g \in Groups :
        Written(g) =>
            \A i \in 1..DataRows : \A j \in 0..(NumCols - 1) :
                OutTable(g)[i + 1][j + 1] =
                    Str(Iloc(TableOf(g), i - 1, j), TableOf(g).dtypes[j + 1])

\* Group A's int64 table and group Subtitle's float64 table were written:
\* A's cell (1, 0) is -1 and (8, 4) is 38; Subtitle's cell (1, 0) is -2.1.
C8_Witness ==
    /\ Written("A") /\ Written("Subtitle")
    /\ TableOf("A").dtypes[1] = "int64"
    /\ TableOf("Subtitle").dtypes[1] = "float64"
    /\ OutTable("A")[2][1] = "-1"
    /\ OutTable("A")[9][5] = "38"
    /\ OutTable("Subtitle")[2][1] = "-2.1"

(***************************************************************************)
(* C9: the data loader returns a mapping with one entry for every .csv     *)
(* file found in the data directory, keyed by the file's name without its  *)
(* extension and holding that file's content, also for names of more than  *)
(* one dot.                                                                *)
(***************************************************************************)
\* The file name without its extension (text before the last dot).
Stem(f) ==
    IF Positions(f, ".") = {} THEN f
    ELSE SubSeq(f, 1, SetMax(Positions(f, ".")) - 1)

CsvFilesFound == {f \in DOMAIN dataDir : EndsWith(f, ".csv") /\ CharAt(f, 1) # "."}

LoaderReturned == pc \notin {"glob", "load"} /\ error.at # "load"

C9_OneEntryPerCsvFile ==
    LoaderReturned =>
        /\ DOMAIN dataframes = {Stem(f) : f \in CsvFilesFound}
        /\ \A f \in CsvFilesFound :
              Stem(f) \in DOMAIN dataframes /\ dataframes[Stem(f)] = dataDir[f]

(***************************************************************************)
(* C10: after a successful edit_pres call the slide-0 shape that contained *)
(* "Presentation title" in the template holds "Presentation for Group      *)
(* <group>" and the shape that contained "Subtitle" in the template holds  *)
(* "Financial Information for Group <group>", for every group identifier.  *)
(***************************************************************************)
C10_TitleAndSubtitleShapes ==
    \A g \in Groups :
        (/\ Written(g)
         /\ FindText(templateFile[1], "Presentation title") # <<>>
         /\ FindText(templateFile[1], "Subtitle") # <<>>) =>
            /\ OutSlides(g)[1][FindText(templateFile[1], "Presentation title")[1]].text
                   = "Presentation for Group " \o g
            /\ OutSlides(g)[1][FindText(templateFile[1], "Subtitle")[1]].text
                   = "Financial Information for Group " \o g

(***************************************************************************)
(* C3: a run in which every group value of the chart dataset has a detail  *)
(* table and the template has the expected layout ends with exactly one    *)
(* output file per distinct group value, named                             *)
(* outputs/results_group_<group>.pptx, and each edit_pres call returns the *)
(* confirmation naming its group.                                          *)
(***************************************************************************)
\* A detail table of the data model: at least 8 rows of 5 numeric columns.
WellFormed(df) ==
    /\ Len(df.rows) >= DataRows
    /\ Len(df.columns) >= NumCols
    /\ \A j \in 1..NumCols : df.dtypes[j] # "object"

\* The loop over the groups has begun, every group has a loaded detail
\* table and the template has the expected layout.
ValidRun ==
    /\ groups # <<>>
    /\ \A i \in 1..Len(groups) :
          /\ ("table_" \o groups[i]) \in DOMAIN dataframes
          /\ WellFormed(dataframes["table_" \o groups[i]])
    /\ templateFile \in {Template(v) : v \in ExpectedLayouts}

UniqueGroups == \A i, j \in 1..Len(groups) : groups[i] = groups[j] => i = j

FileWritten(path) ==
    /\ path \in DOMAIN outputs
    /\ outputs[path].exists
    /\ outputs[path].slides # StaleFile.slides

OneFilePerGroup ==
    /\ pc # "aborted"
    /\ pc = "done" =>
          /\ \A g \in Groups :
                FileWritten("outputs/results_group_" \o g \o ".pptx")
                    <=> g \in Range(groups)
          /\ returns = [i \in 1..Len(groups) |->
                           "Successfully saved version " \o groups[i] \o "!"]

\* The claim as stated: also when a group value occurs in several rows.
C3_OneFilePerGroupAlsoDuplicates == ValidRun => OneFilePerGroup

\* The claim for chart datasets of one row per group value.
C3_OneFilePerGroupUnique == (ValidRun /\ UniqueGroups) => OneFilePerGroup

\* A run over two different groups has ended with both files written.
C3_Witness ==
    /\ pc = "done"
    /\ ValidRun /\ UniqueGroups
    /\ Len(groups) = 2
    /\ Len(returns) = 2
    /\ \A g \in Groups : Written(g)

(***************************************************************************)
(* C4: when the driver reaches a group value for which no dataset named    *)
(* table_<group> was loaded, it fails with a lookup error before edit_pres *)
(* is called for that group, and no output file of that group is created.  *)
(***************************************************************************)
AtMissingTable ==
    /\ pc = "lookup"
    /\ idx <= Len(groups)
    /\ ("table_" \o groups[idx]) \notin DOMAIN dataframes

C4_MissingTableFails ==
    [][AtMissingTable =>
          /\ pc' = "aborted"
          /\ error' = [kind |-> "KeyError", at |-> "lookup", index |-> idx]
          /\ outputs' = outputs
          /\ ~Written(groups[idx])]_vars

\* The second group of the run has no table; the first one was saved.
C4_Witness ==
    /\ pc = "aborted"
    /\ error = [kind |-> "KeyError", at |-> "lookup", index |-> 2]
    /\ ("table_" \o groups[2]) \notin DOMAIN dataframes
    /\ Written(groups[1])
    /\ ~Written(groups[2])

(***************************************************************************)
(* C5: the driver is fail-fast: when processing of the k-th group fails    *)
(* the run aborts there; no later group is processed or gets an output     *)
(* file, and the files of the groups before k remain.                      *)
(***************************************************************************)
C5_FailFast ==
    error.kind # "none" =>
        /\ pc = "aborted"
        /\ idx = error.index
        /\ Len(returns) = (IF error.index = 0 THEN 0 ELSE error.index - 1)
        /\ \A g \in Groups :
              Written(g) <=> \E i \in 1..(error.index - 1) : groups[i] = g

\* The second of two different groups failed inside edit_pres; the file of
\* the first is there, the file of the second is not.
C5_Witness ==
    /\ pc = "aborted"
    /\ error.index = 2
    /\ error.at \in EditStages
    /\ groups[1] # groups[2]
    /\ Written(groups[1])
    /\ ~Written(groups[2])

(***************************************************************************)
(* C6: if on slide 0, 1 or 2 no shape with a text frame contains the       *)
(* marker looked up there, edit_pres fails at that lookup, and the file at *)
(* the output path is neither created nor modified by that call.           *)
(***************************************************************************)
MarkerOf(stage) ==
    CASE stage = "title"       -> "Presentation title"
      [] stage = "subtitle"    -> "Subtitle"
      [] stage = "chart_title" -> "Chart"
      [] stage = "table_title" -> "Table"

SlideOf(stage) ==
    CASE stage \in {"title", "subtitle"} -> 1
      [] stage = "chart_title" -> 2
      [] stage = "table_title" -> 3

\* The lookup about to run finds no shape of its slide.
NoShapeHasMarker ==
    /\ pc \in LookupStages
    /\ SlideOf(pc) <= Len(pres)
    /\ \A k \in 1..Len(pres[SlideOf(pc)]) :
          ~(/\ pres[SlideOf(pc)][k].has_text_frame
            /\ Contains(pres[SlideOf(pc)][k].text, MarkerOf(pc)))

C6_MissingPlaceholderFails ==
    [][/\ NoShapeHasMarker =>
             /\ pc' = "aborted"
             /\ error' = [kind |-> "IndexError", at |-> pc, index |-> idx]
             /\ outputs' = outputs
       /\ (pc \in {"call"} \cup (EditStages \ {"save"})) => outputs' = outputs]_vars

\* A call failed at a placeholder lookup and the file an earlier run left at
\* its output path is as it was.
C6_Witness ==
    /\ pc = "aborted"
    /\ error.kind = "IndexError"
    /\ error.at \in LookupStages
    /\ outputs[OutPath(group)] = StaleFile

(***************************************************************************)
(* C7: no template state is shared across groups: each call loads its own  *)
(* template copy and never writes the input path, so what is saved for a   *)
(* group depends only on the group, its chart row and its detail table.    *)
(***************************************************************************)
\* edit_pres as a function of the template file and the call's arguments:
\* the presentation after each of its steps, from a fresh template.
Fill1(tf, g) == DoTitle(tf, g)
Fill2(tf, g) == DoSubtitle(Fill1(tf, g), g)
Fill3(tf, g) == DoChartTitle(Fill2(tf, g), g)
Fill4(tf, g, sel) == DoBar(Fill3(tf, g), BarChartData(sel), g)
Fill5(tf, g, sel) == DoPie(Fill4(tf, g, sel), PieChartData(BarChartData(sel), sel), g)
Fill6(tf, g, sel) == DoTableTitle(Fill5(tf, g, sel), g)
Fill7(tf, g, sel, df) == DoHeadings(Fill6(tf, g, sel), df)
Fill8(tf, g, sel, df) == DoData(Fill7(tf, g, sel, df), df)
Filled(tf, g, sel, df) == DoTotals(Fill8(tf, g, sel, df), df)

FillOK(tf, g, sel, df) ==
    /\ CanTitle(tf)
    /\ CanSubtitle(Fill1(tf, g))
    /\ CanChartTitle(Fill2(tf, g))
    /\ CanBar(Fill3(tf, g), sel)
    /\ CanPie(Fill4(tf, g, sel), sel)
    /\ CanTableTitle(Fill5(tf, g, sel))
    /\ CanHeadings(Fill6(tf, g, sel), df)
    /\ CanData(Fill7(tf, g, sel, df), df)
    /\ CanTotals(Fill8(tf, g, sel, df), df)

C7_NoSharedTemplateState ==
    [][/\ templateFile' = templateFile
       /\ pc = "save" =>
             /\ FillOK(templateFile, group, ChartRowsOf(group), TableOf(group))
             /\ outputs'[OutPath(group)].slides =
                    Filled(templateFile, group, ChartRowsOf(group), TableOf(group))
       /\ (pc \in EditStages /\ pc' = "aborted") =>
             ~FillOK(templateFile, group, ChartRowsOf(group), TableOf(group))]_vars

\* Two different groups were processed one after the other from the same
\* template file; both files are written and differ.
C7_Witness ==
    /\ pc = "done"
    /\ Len(groups) = 2
    /\ groups[1] # groups[2]
    /\ Written(groups[1]) /\ Written(groups[2])
    /\ OutSlides(groups[1]) # OutSlides(groups[2])

====
